---- MODULE Spec2Model ----
(***************************************************************************)
(* Review scrapers of Pulse-Coding: scrape_reviews of src/scraper.py and   *)
(* of src/review_scraper.py, run against a review listing served by a      *)
(* browser the program does not control.                                   *)
(*                                                                         *)
(* A timestamp is a record [day, tod]: a calendar day and a time of day    *)
(* (0 is midnight).  The listing is either live (fixture = <<>>): every    *)
(* answer of the browser is any value it can give; or a fixture: a fixed   *)
(* sequence of pages that decides every answer.                            *)
(***************************************************************************)
EXTENDS Integers, Sequences, FiniteSets, TLC

VARIABLES
    script,             \* which file's scrape_reviews runs
    source,             \* argument source
    start_date,         \* argument start_date (a day)
    end_date,           \* argument end_date (a day)
    now,                \* the clock read by now_utc() / datetime.now()
    fixture,            \* <<>> for a live listing, else the pages served
    pc,                 \* position in scrape_reviews
    selectors,          \* <<>> (None) or <<Selectors>>
    results,            \* scraper.py: results
    old_review_reached, \* scraper.py: old_review_reached
    page_index,         \* scraper.py: page_index
    reviews_data,       \* review_scraper.py: reviews_data
    found_old_review,   \* review_scraper.py: found_old_review
    cards,              \* number of handles in cards
    cardIdx,            \* handles of cards already iterated
    card,               \* the loop variable card: content last read
    error,              \* exception that left scrape_reviews, "" if none
    browser,            \* "none", "open" or "closed"
    touched,            \* history: browser actions performed
    clicks,             \* history: successful clicks of the next control
    fetched,            \* history: pages whose cards were queried
    seenOldPage,        \* history: page where a pre-start date was first met
    navigated,          \* history: page.goto was called
    out_file,           \* main: <<>> or <<the list written to the output file>>
    ab_pc,              \* position in accept_cookies_if_any / detect_and_handle_captcha
    tried,              \* accept_cookies_if_any: selectors handed to try_click
    clicked,            \* accept_cookies_if_any: selectors try_click clicked
    sig,                \* detect_and_handle_captcha: index of sel in captcha_signals
    time_time,          \* time.time(), in seconds since the call
    deadline,           \* detect_and_handle_captcha: deadline
    polls               \* detect_and_handle_captcha: turns of the wait loop

vars == <<script, source, start_date, end_date, now, fixture, pc, selectors,
          results, old_review_reached, page_index, reviews_data,
          found_old_review, cards, cardIdx, card, error, browser, touched,
          clicks, fetched, seenOldPage, navigated, out_file,
          ab_pc, tried, clicked, sig, time_time, deadline, polls>>

antibot == <<ab_pc, tried, clicked, sig, time_time, deadline, polls>>

----------------------------------------------------------------------------
(* Bounds of the model *)

MaxDay == 3        \* calendar days are 0..MaxDay
MaxCards == 2      \* handles a live page returns at most
MaxPages == 3      \* page counters stop counting here (they saturate)
MaxResults == 1    \* records a live crawl collects at most

Days == 0..MaxDay
TimesOfDay == {0, 1}
RangeDays == {1, MaxDay - 1}
AgoDays == {0, 1}

TS(d, t) == [day |-> d, tod |-> t]

Before(a, b) == a.day < b.day \/ (a.day = b.day /\ a.tod < b.tod)

AtMost(a, b) == ~Before(b, a)

NowSet == {TS(d, 1) : d \in {1, MaxDay}}

SourceSet == {"g2", "capterra", "sourceforge", "G2", "trustpilot"}

----------------------------------------------------------------------------
(* Text of a date element *)

Empty == [fmt |-> "empty", day |-> 0, tod |-> 0]

Garbage == [fmt |-> "garbage", day |-> 0, tod |-> 0]

AbsText(d, t) == [fmt |-> "abs", day |-> d, tod |-> t]

AgoText(k) == [fmt |-> "ago", day |-> k, tod |-> 0]

DateTexts ==
    {Garbage} \cup {AbsText(d, t) : d \in Days, t \in TimesOfDay}
        \cup {AgoText(k) : k \in AgoDays}

DateAttrs == {Empty, Garbage} \cup {AbsText(d, 1) : d \in Days}

Card(t, a, f) == [text |-> t, attr |-> a, fault |-> f]

NoCard == Card(Empty, Empty, FALSE)

CardSet ==
    {Card(t, Empty, FALSE) : t \in DateTexts}
        \cup {Card(Empty, a, FALSE) : a \in DateAttrs}
        \cup {Card(Empty, Empty, TRUE)}

----------------------------------------------------------------------------
(* src/scraper.py: pure functions *)

lower(s) == IF s = "G2" THEN "g2" ELSE s

strptime(d) == TS(d, 0)

start == strptime(start_date)

end == strptime(end_date)

dateparse(s, base) ==
    CASE s.fmt = "abs" -> <<TS(s.day, s.tod)>>
      [] s.fmt = "ago" -> <<TS(base.day - s.day, base.tod)>>
      [] OTHER -> <<>>

\* Mutant: a failed parse falls back to the clock.
parse_date_str_Now(s, base) ==
    IF s.fmt = "empty" \/ dateparse(s, base) = <<>> THEN <<base>>
    ELSE dateparse(s, base)

parse_date_str(s, base) == IF s.fmt = "empty" THEN <<>> ELSE dateparse(s, base)

iso_date(dt) == dt.day

\* Mutant: the upper end of the range is not tested.
within_range_NoUpper(dt, lo, hi) == AtMost(lo, dt)

\* Mutant: the range is cut off at the current time.
within_range_UntilNow(dt, lo, hi) ==
    AtMost(lo, dt) /\ AtMost(dt, hi) /\ AtMost(dt, now)

within_range(dt, lo, hi) == AtMost(lo, dt) /\ AtMost(dt, hi)

\* Mutant: every source resolves to a selector set.
get_selectors_Any(src) ==
    <<[site |-> lower(src), has_rating |-> TRUE, has_next_btn |-> TRUE]>>

get_selectors(src) ==
    IF lower(src) \in {"g2", "capterra", "sourceforge"}
    THEN <<[site |-> lower(src), has_rating |-> TRUE, has_next_btn |-> TRUE]>>
    ELSE <<>>

\* What querying the rating element of a card gives: no element, an element
\* with aria-label "4.5 out of 5 stars", one with the inner text "4.5" only,
\* one with neither, or an exception.
RatingEls == {"absent", "aria", "text", "blank", "raises"}

extract_rating_safe(has_selector, el) ==
    CASE ~has_selector -> ""
      [] has_selector /\ el = "aria" -> "4.5"
      [] has_selector /\ el = "text" -> "4.5"
      [] OTHER -> ""

\* Mutant: an empty rating is stored as it is.
S_rating_Raw(x) == x

S_rating(x) == IF x = "" THEN "N/A" ELSE x

Record(src, dt, stars) ==
    [source |-> src, date |-> iso_date(dt), rating |-> stars]

date_raw(c) == IF c.text.fmt # "empty" THEN c.text ELSE c.attr

----------------------------------------------------------------------------
(* src/review_scraper.py: pure functions *)

R_get_selectors(src) ==
    IF src \in {"https://www.g2.com/", "https://www.capterra.in/", "sourceforge"}
    THEN <<[site |-> src, has_rating |-> TRUE, has_next_btn |-> TRUE]>>
    ELSE <<>>

R_url_bound(src) == src \in {"g2", "capterra", "sourceforge"}

dateutil_parse(s) ==
    IF s.fmt = "abs" THEN <<TS(s.day, s.tod)>> ELSE <<>>

parse_date(s, clock) ==
    IF dateutil_parse(s) # <<>> THEN dateutil_parse(s)[1] ELSE clock

R_date_text(c, clock) ==
    IF c.text.fmt = "empty" THEN AbsText(clock.day, clock.tod) ELSE c.text

----------------------------------------------------------------------------
(* The listing: what the browser answers *)

Live == fixture = <<>>

SitePage == clicks + 1

OpOutcomes == {"ok", "timeout", "error"}

\* The random draws of one run. They are handed to the browser (user agent,
\* wheel distance in pixels) and scrape_reviews never reads them back.
USER_AGENTS == {"Chrome/120", "Firefox/121", "Safari/17.1"}

WheelDeltas == {800, 1400}

NextOutcomes == {"clicked", "absent", "disabled", "clickfails", "error"}

FixtureCards == IF SitePage <= Len(fixture) THEN fixture[SitePage].cards ELSE <<>>

ServesOp(o) == IF Live THEN o \in OpOutcomes ELSE o = "ok"

PageSizes == IF Live THEN 0..MaxCards ELSE {Len(FixtureCards)}

ServesPage(o, n) ==
    /\ n \in PageSizes
    /\ IF Live
       THEN o \in OpOutcomes
       ELSE o = (IF n > 0 THEN "ok" ELSE "timeout")

ServesCard(c) ==
    IF Live THEN c \in CardSet ELSE c = FixtureCards[cardIdx + 1]

ServesRating(read, el) ==
    CASE ~read -> el = "absent"
      [] read /\ Live -> el \in RatingEls
      [] OTHER -> el = fixture[SitePage].ratings[cardIdx + 1]

ServesNext(o) ==
    IF Live
    THEN o \in NextOutcomes
    ELSE o = (IF fixture[SitePage].next THEN "clicked" ELSE "absent")

\* A live crawl stops collecting at MaxResults records: no card that would
\* add one more is served.
Room(out, appends) == ~Live \/ ~appends \/ Len(out) < MaxResults

Count(n, cap) == IF n < cap THEN n + 1 ELSE n

Raise(e) == pc' = "raised" /\ error' = e

----------------------------------------------------------------------------
(* Initial state: the arguments of one call, nothing done yet *)

InitRun ==
    /\ pc = "start"
    /\ selectors = <<>>
    /\ results = <<>>
    /\ old_review_reached = FALSE
    /\ page_index = 1
    /\ reviews_data = <<>>
    /\ found_old_review = FALSE
    /\ cards = 0
    /\ cardIdx = 0
    /\ card = NoCard
    /\ error = ""
    /\ browser = "none"
    /\ touched = FALSE
    /\ clicks = 0
    /\ fetched = 0
    /\ seenOldPage = 0
    /\ navigated = FALSE
    /\ out_file = <<>>
    /\ ab_pc = "idle"
    /\ tried = <<>>
    /\ clicked = <<>>
    /\ sig = 1
    /\ time_time = 0
    /\ deadline = 0
    /\ polls = 0

InitArgs ==
    /\ script \in {"scraper", "review_scraper"}
    /\ source \in SourceSet
    /\ start_date \in RangeDays
    /\ end_date \in RangeDays
    /\ now \in NowSet

Init == InitArgs /\ fixture = <<>> /\ InitRun

args == <<script, source, start_date, end_date, now, fixture>>

----------------------------------------------------------------------------
(* src/scraper.py: scrape_reviews *)

\* Mutant: no except clause matches a timeout.
PlaywrightTimeoutError_Missed(o) == FALSE

\* `except PlaywrightTimeoutError`: the clause that guards page.goto and
\* page.wait_for_selector.
PlaywrightTimeoutError(o) == o = "timeout"

\* True only when the element turned up visible and enabled and the click went
\* through; a timeout and any other exception give False.
try_click(o) == o = "clicked"

\* Mutant: anything but a missing control counts as a click.
has_next_Optimistic(o) == o # "absent"

has_next(o) == IF selectors[1].has_next_btn THEN try_click(o) ELSE FALSE

S_Validate ==
    /\ script = "scraper" /\ pc = "start"
    /\ selectors' = get_selectors(source)
    /\ IF selectors' = <<>> \/ Before(end, start)
       THEN Raise("ValueError")
       ELSE pc' = "launch" /\ error' = error
    /\ results' = <<>>
    /\ UNCHANGED <<args, antibot, out_file, navigated, old_review_reached,
                   page_index, reviews_data, found_old_review, cards, cardIdx,
                   card, browser, touched, clicks, fetched, seenOldPage>>

S_Launch(o, ua) ==
    /\ script = "scraper" /\ pc = "launch"
    /\ ua \in USER_AGENTS
    /\ ServesOp(o)
    /\ touched' = TRUE
    /\ IF o = "ok"
       THEN pc' = "goto" /\ browser' = "open" /\ error' = error
       ELSE Raise("Error") /\ browser' = browser
    /\ UNCHANGED <<args, antibot, out_file, navigated, selectors, results,
                   old_review_reached, page_index, reviews_data,
                   found_old_review, cards, cardIdx, card, clicks, fetched,
                   seenOldPage>>

S_Goto(o) ==
    /\ script = "scraper" /\ pc = "goto"
    /\ ServesOp(o)
    /\ navigated' = TRUE
    /\ IF o = "ok" \/ PlaywrightTimeoutError(o)
       THEN pc' = "prepare" /\ error' = error
       ELSE Raise("Error")
    /\ UNCHANGED <<args, antibot, out_file, selectors, results,
                   old_review_reached, page_index, reviews_data,
                   found_old_review, cards, cardIdx, card, browser, touched,
                   clicks, fetched, seenOldPage>>

S_Prepare(o, delta) ==
    /\ script = "scraper" /\ pc = "prepare"
    /\ delta \in WheelDeltas
    /\ ServesOp(o)
    /\ IF o = "ok"
       THEN /\ pc' = "page" /\ error' = error
            /\ old_review_reached' = FALSE
            /\ page_index' = 1
       ELSE Raise("Error") /\ UNCHANGED <<old_review_reached, page_index>>
    /\ UNCHANGED <<args, antibot, out_file, navigated, selectors, results,
                   reviews_data, found_old_review, cards, cardIdx, card,
                   browser, touched, clicks, fetched, seenOldPage>>

S_Page(o, n) ==
    /\ script = "scraper" /\ pc = "page"
    /\ ServesPage(o, n)
    /\ CASE o = "ok" ->
              /\ cards' = n
              /\ cardIdx' = 0
              /\ fetched' = Count(fetched, MaxPages)
              /\ pc' = (IF n = 0 THEN "close" ELSE "cards")
              /\ error' = error
         [] o # "ok" /\ PlaywrightTimeoutError(o) ->
              pc' = "close" /\ UNCHANGED <<error, cards, cardIdx, fetched>>
         [] OTHER ->
              Raise("Error") /\ UNCHANGED <<cards, cardIdx, fetched>>
    /\ UNCHANGED <<args, antibot, out_file, navigated, selectors, results,
                   old_review_reached, page_index, reviews_data,
                   found_old_review, card, browser, touched, clicks,
                   seenOldPage>>

\* Mutant: a candidate newer than the range is taken for an older one.
S_Classify_LateOld(c) ==
    LET dt == parse_date_str(date_raw(c), now) IN
    CASE c.fault -> "failed"
      [] dt = <<>> -> "skipped"
      [] Before(dt[1], start) -> "old"
      [] within_range(dt[1], start, end) -> "kept"
      [] OTHER -> "old"

\* Mutant: a candidate that raises is taken for one older than the range.
S_Classify_FaultOld(c) ==
    LET dt == parse_date_str(date_raw(c), now) IN
    CASE c.fault -> "old"
      [] dt = <<>> -> "skipped"
      [] Before(dt[1], start) -> "old"
      [] within_range(dt[1], start, end) -> "kept"
      [] OTHER -> "ignored"

S_Classify(c) ==
    LET dt == parse_date_str(date_raw(c), now) IN
    CASE c.fault -> "failed"
      [] dt = <<>> -> "skipped"
      [] Before(dt[1], start) -> "old"
      [] within_range(dt[1], start, end) -> "kept"
      [] OTHER -> "ignored"

\* Mutant: nothing is appended once the older-than-range flag is set.
S_Keep_UnlessOld(c) == S_Classify(c) = "kept" /\ ~old_review_reached

S_Keep(c) == S_Classify(c) = "kept"

S_Card(c, el) ==
    /\ script = "scraper" /\ pc = "cards" /\ cardIdx < cards
    /\ ServesCard(c)
    /\ ServesRating(S_Keep(c), el)
    /\ Room(results, S_Keep(c))
    /\ card' = c
    /\ cardIdx' = cardIdx + 1
    /\ pc' = (IF cardIdx' = cards THEN "paginate" ELSE "cards")
    /\ old_review_reached' = (old_review_reached \/ S_Classify(c) = "old")
    /\ results' =
         IF S_Keep(c)
         THEN Append(results,
                     Record(lower(source), parse_date_str(date_raw(c), now)[1],
                            S_rating(extract_rating_safe(selectors[1].has_rating, el))))
         ELSE results
    /\ seenOldPage' =
         IF S_Classify(c) = "old" /\ seenOldPage = 0 THEN SitePage
         ELSE seenOldPage
    /\ UNCHANGED <<args, antibot, out_file, navigated, selectors, page_index,
                   reviews_data, found_old_review, cards, error, browser,
                   touched, clicks, fetched>>

\* Mutant: the page-level stop check is missing.
S_StopCheck_Never == FALSE

S_StopCheck == old_review_reached

S_Paginate(o, delta) ==
    /\ script = "scraper" /\ pc = "paginate"
    /\ delta \in WheelDeltas
    /\ ServesNext(o)
    /\ CASE S_StopCheck ->
              pc' = "close" /\ UNCHANGED <<error, page_index>>
         [] ~S_StopCheck /\ selectors[1].has_next_btn /\ o = "error" ->
              Raise("Error") /\ UNCHANGED page_index
         [] ~S_StopCheck /\ o # "error" /\ has_next(o) ->
              /\ pc' = "page" /\ error' = error
              /\ page_index' = Count(page_index, MaxPages)
         [] OTHER ->
              pc' = "close" /\ UNCHANGED <<error, page_index>>
    /\ clicks' = IF ~S_StopCheck /\ selectors[1].has_next_btn /\ o = "clicked"
                 THEN Count(clicks, MaxPages - 1)
                 ELSE clicks
    \* the loop variable is dead once the page's cards are done
    /\ card' = NoCard
    /\ UNCHANGED <<args, antibot, out_file, navigated, selectors, results,
                   old_review_reached, reviews_data, found_old_review, cards,
                   cardIdx, browser, touched, fetched, seenOldPage>>

S_Close ==
    /\ script = "scraper" /\ pc = "close"
    /\ pc' = "done"
    /\ browser' = "closed"
    /\ UNCHANGED <<args, antibot, out_file, navigated, selectors, results,
                   old_review_reached, page_index, reviews_data,
                   found_old_review, cards, cardIdx, card, error, touched,
                   clicks, fetched, seenOldPage>>

S_Main ==
    /\ script = "scraper" /\ pc = "done"
    /\ out_file' = <<results>>
    /\ pc' = "saved"
    /\ UNCHANGED <<args, antibot, navigated, selectors, results,
                   old_review_reached, page_index, reviews_data,
                   found_old_review, cards, cardIdx, card, error, browser,
                   touched, clicks, fetched, seenOldPage>>

----------------------------------------------------------------------------
(* src/review_scraper.py: scrape_reviews *)

R_Launch(o) ==
    /\ script = "review_scraper" /\ pc = "start"
    /\ ServesOp(o)
    /\ reviews_data' = <<>>
    /\ touched' = TRUE
    /\ IF o = "ok"
       THEN pc' = "goto" /\ browser' = "open" /\ error' = error
       ELSE Raise("Error") /\ browser' = browser
    /\ UNCHANGED <<args, antibot, out_file, navigated, selectors, results,
                   old_review_reached, page_index, found_old_review, cards,
                   cardIdx, card, clicks, fetched, seenOldPage>>

R_Goto(o) ==
    /\ script = "review_scraper" /\ pc = "goto"
    /\ ServesOp(o)
    /\ navigated' = R_url_bound(source)
    /\ CASE ~R_url_bound(source) ->
              Raise("UnboundLocalError") /\ selectors' = selectors
         [] R_url_bound(source) /\ o # "ok" ->
              Raise("Error") /\ selectors' = selectors
         [] OTHER ->
              /\ selectors' = R_get_selectors(source)
              /\ pc' = "page" /\ error' = error
    /\ UNCHANGED <<args, antibot, out_file, results, old_review_reached,
                   page_index, reviews_data, found_old_review, cards, cardIdx,
                   card, browser, touched, clicks, fetched, seenOldPage>>

R_Page(o, n) ==
    /\ script = "review_scraper" /\ pc = "page"
    /\ ServesPage(o, n)
    /\ CASE selectors = <<>> ->
              /\ Raise("TypeError")
              /\ UNCHANGED <<cards, cardIdx, fetched, found_old_review>>
         [] selectors # <<>> /\ o = "error" ->
              /\ Raise("Error")
              /\ UNCHANGED <<cards, cardIdx, fetched, found_old_review>>
         [] OTHER ->
              /\ cards' = n
              /\ cardIdx' = 0
              /\ fetched' = Count(fetched, MaxPages)
              /\ found_old_review' = (IF n = 0 THEN found_old_review ELSE FALSE)
              /\ pc' = (IF n = 0 THEN "close" ELSE "cards")
              /\ error' = error
    /\ UNCHANGED <<args, antibot, out_file, navigated, selectors, results,
                   old_review_reached, page_index, reviews_data, card,
                   browser, touched, clicks, seenOldPage>>

R_review_date(c) == parse_date(R_date_text(c, now), now)

R_Classify(c) ==
    CASE c.fault -> "failed"
      [] Before(R_review_date(c), start) -> "old"
      [] AtMost(start, R_review_date(c)) /\ AtMost(R_review_date(c), end) -> "kept"
      [] OTHER -> "ignored"

R_Break(c) == R_Classify(c) = "old"

R_Keep(c) == R_Classify(c) = "kept"

R_Card(c) ==
    /\ script = "review_scraper" /\ pc = "cards" /\ cardIdx < cards
    /\ ServesCard(c)
    /\ Room(reviews_data, R_Keep(c))
    /\ card' = c
    /\ cardIdx' = cardIdx + 1
    /\ pc' = (IF cardIdx' = cards \/ R_Break(c) THEN "paginate" ELSE "cards")
    /\ found_old_review' = (found_old_review \/ R_Classify(c) = "old")
    /\ reviews_data' =
         IF R_Keep(c)
         THEN Append(reviews_data, Record(source, R_review_date(c), "N/A"))
         ELSE reviews_data
    /\ seenOldPage' =
         IF R_Classify(c) = "old" /\ seenOldPage = 0 THEN SitePage
         ELSE seenOldPage
    /\ UNCHANGED <<args, antibot, out_file, navigated, selectors, results,
                   old_review_reached, page_index, cards, error, browser,
                   touched, clicks, fetched>>

\* Mutant: the page-level stop check is missing.
R_StopCheck_Never == FALSE

R_StopCheck == found_old_review

R_Paginate(o) ==
    /\ script = "review_scraper" /\ pc = "paginate"
    /\ ServesNext(o)
    /\ CASE R_StopCheck ->
              pc' = "close" /\ UNCHANGED <<error, clicks>>
         [] ~R_StopCheck /\ o \in {"error", "clickfails"} ->
              Raise("Error") /\ clicks' = clicks
         [] ~R_StopCheck /\ o = "clicked" ->
              /\ pc' = "page" /\ error' = error
              /\ clicks' = Count(clicks, MaxPages - 1)
         [] OTHER ->
              pc' = "close" /\ UNCHANGED <<error, clicks>>
    \* the loop variable is dead once the page's cards are done
    /\ card' = NoCard
    /\ UNCHANGED <<args, antibot, out_file, navigated, selectors, results,
                   old_review_reached, page_index, reviews_data,
                   found_old_review, cards, cardIdx, browser, touched,
                   fetched, seenOldPage>>

R_Close ==
    /\ script = "review_scraper" /\ pc = "close"
    /\ pc' = "done"
    /\ browser' = "closed"
    /\ UNCHANGED <<args, antibot, out_file, navigated, selectors, results,
                   old_review_reached, page_index, reviews_data,
                   found_old_review, cards, cardIdx, card, error, touched,
                   clicks, fetched, seenOldPage>>

R_Main ==
    /\ script = "review_scraper" /\ pc = "done"
    /\ out_file' = <<reviews_data>>
    /\ pc' = "saved"
    /\ UNCHANGED <<args, antibot, navigated, selectors, results,
                   old_review_reached, page_index, reviews_data,
                   found_old_review, cards, cardIdx, card, error, browser,
                   touched, clicks, fetched, seenOldPage>>

----------------------------------------------------------------------------
(* src/scraper.py: accept_cookies_if_any and detect_and_handle_captcha,
   each run on its own against a page *)

scrape == <<pc, selectors, results, old_review_reached, page_index,
            reviews_data, found_old_review, cards, cardIdx, card, error,
            browser, touched, clicks, fetched, seenOldPage, navigated,
            out_file>>

max_wait_seconds == 120

captcha_signals ==
    <<"iframe[src*='hcaptcha']", "iframe[src*='recaptcha']",
      "#challenge-stage", "#cf-challenge-running">>

possible_accepts ==
    <<"button#onetrust-accept-btn-handler", "button[aria-label='Accept all']",
      "button:has-text('Accept All')", "button:has-text('I Agree')",
      "button:has-text('Accept')", "button:has-text('Got it')">>

\* page.query_selector(sel): an element, None, or an exception.
QueryOutcomes == {"present", "absent", "raises"}

\* Mutant: the pause takes no time.
human_sleep_None(a, b) == {0}

\* The seconds a pause of random.uniform(a, b) takes: its two ends.
human_sleep(a, b) == {a, b}

\* Mutant: the loop goes on after a successful click.
accept_cookies_NoBreak(o) ==
    /\ ab_pc = "cookies"
    /\ o \in NextOutcomes
    /\ tried' = Append(tried, possible_accepts[Len(tried) + 1])
    /\ clicked' = IF try_click(o)
                  THEN Append(clicked, possible_accepts[Len(tried) + 1])
                  ELSE clicked
    /\ ab_pc' = IF Len(tried') = Len(possible_accepts)
                THEN "returned"
                ELSE "cookies"
    /\ UNCHANGED <<args, scrape, sig, time_time, deadline, polls>>

\* One turn of `for sel in possible_accepts`.
accept_cookies_if_any(o) ==
    /\ ab_pc = "cookies"
    /\ o \in NextOutcomes
    /\ tried' = Append(tried, possible_accepts[Len(tried) + 1])
    /\ clicked' = IF try_click(o)
                  THEN Append(clicked, possible_accepts[Len(tried) + 1])
                  ELSE clicked
    /\ ab_pc' = IF try_click(o) \/ Len(tried') = Len(possible_accepts)
                THEN "returned"
                ELSE "cookies"
    /\ UNCHANGED <<args, scrape, sig, time_time, deadline, polls>>

\* `except Exception: pass`: the function falls off its end.
captcha_except == "returned"

\* One turn of `for sel in captcha_signals`, up to the wait loop.
captcha_Detect(o) ==
    /\ ab_pc = "detect"
    /\ o \in QueryOutcomes
    /\ CASE o = "present" ->
              /\ ab_pc' = "poll"
              /\ deadline' = time_time + max_wait_seconds
              /\ sig' = sig
         [] o = "absent" /\ sig < Len(captcha_signals) ->
              ab_pc' = "detect" /\ sig' = sig + 1 /\ deadline' = deadline
         [] o = "absent" /\ sig = Len(captcha_signals) ->
              ab_pc' = "returned" /\ UNCHANGED <<sig, deadline>>
         [] OTHER ->
              ab_pc' = captcha_except /\ UNCHANGED <<sig, deadline>>
    /\ UNCHANGED <<args, scrape, tried, clicked, time_time, polls>>

\* One turn of `while time.time() < deadline`.
captcha_Poll(d, o) ==
    /\ ab_pc = "poll" /\ time_time < deadline
    /\ d \in human_sleep(1, 2)
    /\ o \in QueryOutcomes
    /\ time_time' = time_time + d
    /\ polls' = polls + 1
    /\ ab_pc' = CASE o = "present" -> "poll"
                  [] o = "absent" -> "returned"
                  [] OTHER -> captcha_except
    /\ UNCHANGED <<args, scrape, tried, clicked, sig, deadline>>

\* The wait loop ran out: "Timeout waiting for manual solve; continuing."
captcha_Timeout ==
    /\ ab_pc = "poll" /\ time_time >= deadline
    /\ ab_pc' = "returned"
    /\ UNCHANGED <<args, scrape, tried, clicked, sig, time_time, deadline,
                   polls>>

NextAntiBot ==
    \/ \E o \in NextOutcomes : accept_cookies_if_any(o)
    \/ \E o \in QueryOutcomes : captcha_Detect(o)
    \/ \E d \in {0, 1, 2}, o \in QueryOutcomes : captcha_Poll(d, o)
    \/ captcha_Timeout

\* scrape_reviews has navigated (lines 263-268) and calls one of the two.
InitAntiBot ==
    /\ script = "scraper" /\ source = "g2"
    /\ start_date = 1 /\ end_date = 1
    /\ now = TS(1, 1)
    /\ fixture = <<>>
    /\ pc = "prepare"
    /\ selectors = get_selectors(source)
    /\ results = <<>>
    /\ old_review_reached = FALSE
    /\ page_index = 1
    /\ reviews_data = <<>>
    /\ found_old_review = FALSE
    /\ cards = 0
    /\ cardIdx = 0
    /\ card = NoCard
    /\ error = ""
    /\ browser = "open"
    /\ touched = TRUE
    /\ clicks = 0
    /\ fetched = 0
    /\ seenOldPage = 0
    /\ navigated = TRUE
    /\ out_file = <<>>
    /\ ab_pc \in {"cookies", "detect"}
    /\ tried = <<>>
    /\ clicked = <<>>
    /\ sig = 1
    /\ time_time = 0
    /\ deadline = 0
    /\ polls = 0

SpecAntiBot == InitAntiBot /\ [][NextAntiBot]_vars

FairAntiBot == SpecAntiBot /\ WF_vars(NextAntiBot)

----------------------------------------------------------------------------
(* Specifications *)

Next ==
    \/ S_Validate
    \/ \E o \in OpOutcomes, ua \in USER_AGENTS : S_Launch(o, ua)
    \/ \E o \in OpOutcomes : S_Goto(o)
    \/ \E o \in OpOutcomes, delta \in WheelDeltas : S_Prepare(o, delta)
    \/ \E o \in OpOutcomes, n \in PageSizes : S_Page(o, n)
    \/ \E c \in CardSet, el \in RatingEls : S_Card(c, el)
    \/ \E o \in NextOutcomes, delta \in WheelDeltas : S_Paginate(o, delta)
    \/ S_Close
    \/ S_Main
    \/ \E o \in OpOutcomes : R_Launch(o)
    \/ \E o \in OpOutcomes : R_Goto(o)
    \/ \E o \in OpOutcomes, n \in PageSizes : R_Page(o, n)
    \/ \E c \in CardSet : R_Card(c)
    \/ \E o \in NextOutcomes : R_Paginate(o)
    \/ R_Close
    \/ R_Main

Spec == Init /\ [][Next]_vars

\* The interpreter runs the single thread of scrape_reviews as long as it
\* has a step to take.
FairSpec == Spec /\ WF_vars(Next)

----------------------------------------------------------------------------
(* What a card shows, read off the listing and not off the program *)

Shown(c) == IF c.text.fmt = "empty" THEN c.attr ELSE c.text

\* The timestamp a card's date denotes: <<>> when it shows none.
Denotes(c) ==
    CASE c.fault -> <<>>
      [] ~c.fault /\ Shown(c).fmt = "abs" -> <<TS(Shown(c).day, Shown(c).tod)>>
      [] ~c.fault /\ Shown(c).fmt = "ago" -> <<TS(now.day - Shown(c).day, now.tod)>>
      [] OTHER -> <<>>

Undated(c) == ~c.fault /\ Shown(c).fmt \in {"empty", "garbage"}

DayInRange(c) ==
    /\ Denotes(c) # <<>>
    /\ start_date <= Denotes(c)[1].day
    /\ Denotes(c)[1].day <= end_date

StampInRange(c) ==
    /\ Denotes(c) # <<>>
    /\ AtMost(strptime(start_date), Denotes(c)[1])
    /\ AtMost(Denotes(c)[1], strptime(end_date))

PreRange(c) == Denotes(c) # <<>> /\ Denotes(c)[1].day < start_date

PostRange(c) == Denotes(c) # <<>> /\ Denotes(c)[1].day > end_date

Kept(c, src) == [source |-> src, date |-> Denotes(c)[1].day]

Brief(rec) == [source |-> rec.source, date |-> rec.date]

\* new is old with one record of card c appended.
AppendsKept(old, new, c, src) ==
    /\ Len(new) = Len(old) + 1
    /\ SubSeq(new, 1, Len(old)) = old
    /\ Brief(new[Len(new)]) = Kept(c, src)

CardStep == pc = "cards" /\ cardIdx' = cardIdx + 1

----------------------------------------------------------------------------
(* The three-page listing of the end-to-end scenario *)

FivePage(a, b, at, more) ==
    [cards |-> [i \in 1..5 |-> IF i \in at THEN b ELSE a],
     ratings |-> <<"aria", "absent", "text", "blank", "raises">>,
     next |-> more]

ScenarioFixtures ==
    {<<FivePage(a, b, {}, TRUE), FivePage(a, b, at, TRUE),
       [cards |-> <<b>>, ratings |-> <<"absent">>, next |-> FALSE]>> :
        a \in {c \in CardSet : StampInRange(c)},
        b \in {c \in CardSet : PreRange(c)},
        at \in {x \in SUBSET (1..5) : Cardinality(x) = 2}}

InitScenario == InitArgs /\ fixture \in ScenarioFixtures /\ InitRun

SpecScenario == InitScenario /\ [][Next]_vars

----------------------------------------------------------------------------
(* Fixed two-page listings whose date texts are all absolute *)

FixedCards ==
    {Card(AbsText(d, 0), Empty, FALSE) : d \in Days}
        \cup {Card(AbsText(1, 1), Empty, FALSE), Card(Garbage, Empty, FALSE),
              Card(Empty, AbsText(1, 1), FALSE), Card(Empty, Empty, TRUE)}

FixedFixtures ==
    {<<[cards |-> <<a, b>>, ratings |-> <<"aria", "blank">>, next |-> more],
       [cards |-> <<c>>, ratings |-> <<"text">>, next |-> FALSE]>> :
        a \in FixedCards, b \in FixedCards, c \in FixedCards,
        more \in BOOLEAN}

InitFixed == InitArgs /\ fixture \in FixedFixtures /\ InitRun

SpecFixed == InitFixed /\ [][Next]_vars

\* The result sequence a listing determines, read off the listing alone:
\* neither the clock nor any random draw occurs in it.
ExpectedRating(el) == IF el \in {"aria", "text"} THEN "4.5" ELSE "N/A"

PageRecords(pg, src) ==
    LET kept == SelectSeq([i \in 1..Len(pg.cards) |-> i],
                          LAMBDA i : StampInRange(pg.cards[i]))
    IN  [k \in 1..Len(kept) |->
            [source |-> src,
             date |-> Denotes(pg.cards[kept[k]])[1].day,
             rating |-> ExpectedRating(pg.ratings[kept[k]])]]

RECURSIVE ExpectedFrom(_, _, _)
ExpectedFrom(fx, src, p) ==
    IF p > Len(fx) \/ Len(fx[p].cards) = 0
    THEN <<>>
    ELSE PageRecords(fx[p], src)
            \o (IF (\E i \in DOMAIN fx[p].cards : PreRange(fx[p].cards[i]))
                      \/ ~fx[p].next
                THEN <<>>
                ELSE ExpectedFrom(fx, src, p + 1))

----------------------------------------------------------------------------
(* Claims *)

DatesInRange(out) ==
    \A i \in DOMAIN out : start_date <= out[i].date /\ out[i].date <= end_date

\* C1: in both scripts, at every point of a crawl, every record held in the
\* result sequence has a date d with start <= d <= end, both ends inclusive.
C1_RecordsInRange == DatesInRange(results) /\ DatesInRange(reviews_data)

C1_Witness ==
    /\ script = "scraper" /\ pc = "done" /\ start_date < end_date
    /\ \E i \in DOMAIN results : results[i].date = end_date

\* C2: in scraper.py every candidate whose date falls on a calendar day d
\* with start <= d <= end is appended as a record, whatever time of day its
\* timestamp carries.
C2_EveryDayInRangeKept ==
    [][(script = "scraper" /\ CardStep /\ DayInRange(card'))
          => AppendsKept(results, results', card', lower(source))]_vars

\* C3: in scraper.py, after a candidate dated before start was met on a
\* page, the remaining candidates of the page are still iterated and every
\* candidate whose timestamp lies in [start, end] is still appended.
C3_KeptAfterOld ==
    [][(script = "scraper" /\ CardStep /\ seenOldPage = SitePage)
          => /\ pc' = (IF cardIdx' < cards THEN "cards" ELSE "paginate")
             /\ StampInRange(card')
                  => AppendsKept(results, results', card', lower(source))]_vars

C3_Witness ==
    /\ script = "scraper" /\ pc = "paginate" /\ cardIdx = cards
    /\ seenOldPage = SitePage /\ old_review_reached
    /\ StampInRange(card) /\ results # <<>>
    /\ Brief(results[Len(results)]) = Kept(card, lower(source))

\* C4: in review_scraper.py the card loop of a page does not end early at a
\* card dated before start: it leaves the loop only after the last handle.
C4_NoEarlyBreak ==
    (script = "review_scraper" /\ pc = "paginate") => cardIdx = cards

\* C5: in scraper.py a candidate whose date text and fallback attribute are
\* empty or unparseable is skipped: no record is added, the older-than-range
\* flag keeps its value and the loop goes on as for any other card.
C5_UndatedSkipped ==
    [][(script = "scraper" /\ CardStep /\ Undated(card'))
          => /\ results' = results
             /\ old_review_reached' = old_review_reached
             /\ seenOldPage' = seenOldPage
             /\ pc' = (IF cardIdx' < cards THEN "cards" ELSE "paginate")]_vars

C5_Witness ==
    /\ script = "scraper" /\ pc = "paginate" /\ cardIdx = cards
    /\ Undated(card) /\ Shown(card).fmt = "garbage"
    /\ ~old_review_reached /\ results = <<>>
    /\ AtMost(start, now) /\ AtMost(now, end)

\* C6: in review_scraper.py a card whose date is missing or unparseable is
\* never appended and never sets the found-old flag.
C6_UndatedNeverKept ==
    [][(script = "review_scraper" /\ CardStep /\ Undated(card'))
          => /\ reviews_data' = reviews_data
             /\ found_old_review' = found_old_review]_vars

\* C7: in both scripts, once a candidate dated before start has been seen on
\* page k, the next control is never clicked again and no further page is
\* processed: page k is the last page visited.
C7_NoPageAfterOld ==
    [][seenOldPage # 0
          => /\ clicks' = clicks
             /\ fetched' = fetched
             /\ pc' # "page"]_vars

C7_Witness ==
    /\ pc = "done" /\ seenOldPage = 2 /\ clicks = 1 /\ fetched = 2

\* C8: in scraper.py, on the three-page listing (page 1: five in-range
\* cards; page 2: three in-range and two pre-range cards in any order; page
\* 3: pre-range cards only; next control clickable on pages 1 and 2 only)
\* scrape_reviews returns exactly 8 records, clicks next exactly once and
\* never fetches page 3.
C8_Scenario ==
    script = "scraper"
        => /\ clicks <= 1
           /\ fetched <= 2
           /\ pc = "done" => (Len(results) = 8 /\ clicks = 1 /\ fetched = 2)

C8_Witness ==
    script = "scraper" /\ pc = "done" /\ Len(results) = 8 /\ fetched = 2

\* C9: whatever the listing serves, the pagination loop of scrape_reviews
\* in scraper.py eventually ends.
C9_Terminates ==
    script = "scraper" => <>(pc \in {"done", "raised"})

UnknownSource == lower(source) \notin {"g2", "capterra", "sourceforge"}

\* C10: in scraper.py an unknown source or a range with end < start makes
\* scrape_reviews raise ValueError before any browser action: no browser
\* action ever occurs in such a run.
C10_ConfigErrorBeforeBrowser ==
    (script = "scraper" /\ (UnknownSource \/ end_date < start_date))
        => /\ ~touched
           /\ browser = "none"
           /\ pc \in {"start", "raised"}
           /\ pc = "raised" => error = "ValueError"

C10_Witness ==
    /\ script = "scraper" /\ pc = "raised" /\ error = "ValueError"
    /\ ~UnknownSource /\ end_date < start_date

\* C11: in review_scraper.py a call with an unsupported source or with
\* end_date earlier than start_date fails before the browser navigates to
\* any URL.
C11_FailsBeforeNavigation ==
    (script = "review_scraper"
        /\ (~R_url_bound(source) \/ end_date < start_date))
        => ~navigated

\* C12: in scraper.py records collected on earlier pages are never lost by a
\* failure on a later page: scrape_reviews does not end in an exception
\* while it holds records.
C12_NoRecordsLost ==
    (script = "scraper" /\ pc = "raised") => results = <<>>

\* C13: in both scripts the browser session opened by scrape_reviews has
\* been closed by close() on every exit path, exceptions included.
C13_ClosedOnEveryExit ==
    pc \in {"done", "saved", "raised"} => browser \in {"none", "closed"}

\* C14: in both scripts every record appended to the results has a
\* non-empty rating: an extracted value or the literal "N/A".
C14_RatingNeverEmpty ==
    /\ \A i \in DOMAIN results : results[i].rating \in {"N/A", "4.5"}
    /\ \A i \in DOMAIN reviews_data : reviews_data[i].rating = "N/A"

C14_Witness ==
    /\ script = "scraper" /\ pc = "saved"
    /\ results # <<>> /\ results[1].rating = "N/A"

\* C15: two runs of scrape_reviews of scraper.py with the same source and
\* range on the same fixed listing with absolute date texts return the same
\* ordered results: what a finished run returns is the sequence the listing
\* determines, whatever the clock reads and whatever the random draws are.
C15_SameResults ==
    (script = "scraper" /\ pc \in {"done", "saved"})
        => results = ExpectedFrom(fixture, lower(source), 1)

C15_Witness ==
    /\ script = "scraper" /\ pc = "done" /\ clicks = 1
    /\ Len(results) = 3
    /\ results[1].date < results[2].date

\* C16: detect_and_handle_captcha never raises; every turn of its wait loop
\* moves the time on by at least one second, so it takes at most
\* max_wait_seconds turns; and the call returns, solved or not.
C16_CaptchaReturns ==
    /\ [](ab_pc # "raised" /\ polls <= time_time /\ polls <= max_wait_seconds)
    /\ <>(ab_pc = "returned")

C16_Witness ==
    /\ ab_pc = "returned" /\ tried = <<>>
    /\ polls = max_wait_seconds /\ time_time >= deadline

\* C17: accept_cookies_if_any hands the selectors to try_click in their listed
\* order, clicks at most one, returns right after the first click, and returns
\* without raising when no click succeeds.
C17_CookiesOnce ==
    /\ tried = SubSeq(possible_accepts, 1, Len(tried))
    /\ Len(clicked) <= 1
    /\ clicked # <<>> =>
          (ab_pc = "returned" /\ clicked[1] = tried[Len(tried)])
    /\ ab_pc # "raised"
    /\ (Len(tried) = Len(possible_accepts)) => ab_pc = "returned"

C17_Witness ==
    /\ ab_pc = "returned" /\ Len(tried) = 3
    /\ clicked = <<possible_accepts[3]>>

\* C18: in scraper.py a timeout of the initial navigation lets the crawl go
\* on; a timeout of the page-ready wait, a page without cards and a next
\* control that does not turn up in time end the loop; the loop once ended,
\* the function returns without an error and with the records it had.
C18_TimeoutsStayInside ==
    [][/\ S_Goto("timeout") => (pc' = "prepare" /\ error' = "")
       /\ ((\E n \in PageSizes : S_Page("timeout", n)) \/ S_Page("ok", 0))
             => (pc' = "close" /\ error' = "" /\ results' = results)
       /\ (\E delta \in WheelDeltas : S_Paginate("absent", delta))
             => (pc' = "close" /\ error' = "" /\ results' = results)
       /\ (script = "scraper" /\ pc = "close")
             => (pc' = "done" /\ error' = "" /\ results' = results)]_vars

C18_Witness ==
    /\ script = "scraper" /\ pc = "done" /\ error = ""
    /\ clicks = 1 /\ fetched = 1
    /\ results # <<>>

C20_FaultDropsOneCard ==
    [][(script = "scraper" /\ CardStep /\ card'.fault)
          => /\ results' = results
             /\ old_review_reached' = old_review_reached
             /\ error' = error
             /\ pc' = (IF cardIdx' < cards THEN "cards" ELSE "paginate")]_vars

C20_Witness ==
    /\ script = "scraper" /\ pc = "paginate" /\ fetched = 1
    /\ cards = 2 /\ cardIdx = 2 /\ card.fault
    /\ results # <<>> /\ ~old_review_reached

\* C21: in scraper.py a candidate dated after end_date adds no record and
\* does not set old_review_reached; and with the flag unset, a next control
\* that is clicked takes the crawl to the next page.
C21_NewerIsPassedOver ==
    [][/\ (script = "scraper" /\ CardStep /\ PostRange(card'))
            => /\ results' = results
               /\ old_review_reached' = old_review_reached
               /\ pc' = (IF cardIdx' < cards THEN "cards" ELSE "paginate")
       /\ (~old_review_reached
              /\ \E delta \in WheelDeltas : S_Paginate("clicked", delta))
            => (pc' = "page" /\ page_index' = Count(page_index, MaxPages))]_vars

C21_Witness ==
    /\ script = "scraper" /\ pc = "paginate" /\ fetched = 2
    /\ cards = 2 /\ cardIdx = 2 /\ PostRange(card)
    /\ results = <<>> /\ ~old_review_reached

\* C22: in review_scraper.py, for every source the command line accepts, the
\* crawl loop runs with a selector set and the run never fails on a missing
\* one after the navigation.
C22_SelectorsResolve ==
    (script = "review_scraper" /\ source \in {"g2", "capterra", "sourceforge"})
        => /\ pc \in {"page", "cards", "paginate"} => selectors # <<>>
           /\ error # "TypeError"

====
